---- MODULE Spec2Model ----
(***************************************************************************)
(* A model of VectorSorting.cpp: the menu driver, the CSV loader, the      *)
(* string-to-double helper, selection sort and the Hoare-partition         *)
(* quicksort over a vector of bid records.                                 *)
(*                                                                         *)
(* Strings are sequences of one-character strings; indices of the vector   *)
(* keep the source's 0-based numbering (At and SwapAt translate).          *)
(***************************************************************************)
EXTENDS Integers, Sequences, FiniteSets

\* ------------------------------------------------------------------ bounds

\* Largest number of data rows of an input file.
MaxRows == 4

\* Longest string handed to strToDouble in the conversion specification.
MaxStrLen == 3

\* The model's size_t holds 0 .. SizeTMod-1 (the build's holds 0 .. 2^64-1):
\* wide enough that every index of a vector of MaxRows records is below half of it.
SizeTMod == 2 * (MaxRows + 2)

\* ------------------------------------------------------------- characters

Digits == <<"0", "1", "2", "3", "4", "5", "6", "7", "8", "9">>

IsDigit(c) == \E d \in 1..10 : Digits[d] = c

DigitVal(c) == (CHOOSE d \in 1..10 : Digits[d] = c) - 1

\* The byte value of a character (ASCII), which std::string's operator< compares.
Code(c) ==
    CASE c = " " -> 32
      [] c = "$" -> 36
      [] c = "+" -> 43
      [] c = "," -> 44
      [] c = "-" -> 45
      [] c = "." -> 46
      [] IsDigit(c) -> 48 + DigitVal(c)
      [] c = "A" -> 65
      [] c = "B" -> 66
      [] c = "F" -> 70

\* StrLess with the comparison reversed: a fault seeded to see that C1 detects it.
RECURSIVE StrGreater(_, _)
StrGreater(s, t) ==
    IF s = <<>> THEN FALSE
    ELSE IF t = <<>> THEN TRUE
    ELSE IF Code(Head(s)) > Code(Head(t)) THEN TRUE
    ELSE IF Code(Head(s)) < Code(Head(t)) THEN FALSE
    ELSE StrGreater(Tail(s), Tail(t))

\* std::string operator<: lexicographic by byte, a proper prefix is smaller.
RECURSIVE StrLess(_, _)
StrLess(s, t) ==
    IF t = <<>> THEN FALSE
    ELSE IF s = <<>> THEN TRUE
    ELSE IF Code(Head(s)) < Code(Head(t)) THEN TRUE
    ELSE IF Code(Head(s)) > Code(Head(t)) THEN FALSE
    ELSE StrLess(Tail(s), Tail(t))

\* ------------------------------------------------------------ strToDouble

\* A parsed number m / 10^k, kept in lowest terms of ten (k = 0 or m not a
\* multiple of 10), so that equal values are equal pairs.
RECURSIVE Dec(_, _)
Dec(m, k) ==
    IF m = 0 THEN [m |-> 0, k |-> 0]
    ELSE IF k > 0 /\ m % 10 = 0 THEN Dec(m \div 10, k - 1)
    ELSE [m |-> m, k |-> k]

\* std::remove + erase: every occurrence of ch taken out, the order kept.
RECURSIVE RemoveChar(_, _)
RemoveChar(str, ch) ==
    IF str = <<>> THEN <<>>
    ELSE IF Head(str) = ch THEN RemoveChar(Tail(str), ch)
    ELSE <<Head(str)>> \o RemoveChar(Tail(str), ch)

\* The longest prefix of s made of decimal digits.
RECURSIVE DigitPrefix(_)
DigitPrefix(s) ==
    IF s # <<>> /\ IsDigit(Head(s)) THEN <<Head(s)>> \o DigitPrefix(Tail(s))
    ELSE <<>>

RECURSIVE SkipSpace(_)
SkipSpace(s) == IF s # <<>> /\ Head(s) = " " THEN SkipSpace(Tail(s)) ELSE s

RECURSIVE DigitsValue(_, _)
DigitsValue(ds, acc) ==
    IF ds = <<>> THEN acc ELSE DigitsValue(Tail(ds), 10 * acc + DigitVal(Head(ds)))

Drop(s, n) == SubSeq(s, n + 1, Len(s))

\* atof: leading blanks, an optional sign, then the longest prefix of the form
\* digits [ "." digits ] with at least one digit; whatever follows is ignored,
\* and a string with no such prefix converts to 0.  (Exponents, hexadecimal
\* numbers, "inf" and "nan" need letters, which no string of the model holds;
\* the strings are short enough that distinct decimals are distinct doubles.)
Atof(s) ==
    LET t    == SkipSpace(s)
        neg  == t # <<>> /\ Head(t) = "-"
        u    == IF t # <<>> /\ Head(t) \in {"-", "+"} THEN Tail(t) ELSE t
        ip   == DigitPrefix(u)
        r    == Drop(u, Len(ip))
        fp   == IF r # <<>> /\ Head(r) = "." THEN DigitPrefix(Tail(r)) ELSE <<>>
        mag  == DigitsValue(ip \o fp, 0)
    IN  IF ip = <<>> /\ fp = <<>> THEN Dec(0, 0)
        ELSE Dec(IF neg THEN -mag ELSE mag, Len(fp))

strToDouble(str, ch) == Atof(RemoveChar(str, ch))

\* ------------------------------------------------------------ input files

Titles == {<<"A">>, <<"A", "B">>, <<"B">>}

\* The amount column of data row i: currency-formatted samples.
AmountSamples == << <<"$", "5", "0", "0", ".", "0", "0">>,
                   <<"$", "1", ",", "2", "0", "0", ".", "5", "0">>,
                   <<"$", "1", "0", "0", ".", "0", "0">> >>

AmountOfRow(i) == AmountSamples[(i % Len(AmountSamples)) + 1]

IdOfRow(i) == <<Digits[(i % 10) + 1]>>

\* A well-formed data row: nine columns, title 0, id 1, amount 4, fund 8.
GoodRow(i, title) ==
    <<title, IdOfRow(i), <<>>, <<>>, AmountOfRow(i), <<>>, <<>>, <<>>, <<"F">>>>

\* The rows of a file with the given titles; row `bad` (none when 0) is cut
\* after its amount column, so it has no fund column.
RowsOf(ts, bad) ==
    [i \in 1..Len(ts) |->
        IF i = bad THEN SubSeq(GoodRow(i, ts[i]), 1, 5) ELSE GoodRow(i, ts[i])]

TitleSeqs == UNION {[1..n -> Titles] : n \in 0..MaxRows}

Files ==
    {[exists |-> FALSE, rows |-> <<>>]}
    \cup {[exists |-> TRUE, rows |-> RowsOf(ts, bad)] :
             ts \in TitleSeqs, bad \in 0..MaxRows}

\* The csv::Parser collaborator (CSVparser.hpp is not part of the sources at
\* hand): constructing it on a file that cannot be opened raises csv::Error,
\* rowCount() counts the data rows, and reading a column a row does not have
\* raises csv::Error.
ParserOpens(f) == f.exists

RowCount(f) == Len(f.rows)

HasCol(row, k) == k < Len(row)

Col(row, k) == row[k + 1]

\* ------------------------------------------------------------- the vector

\* Bid(): the default record.
DefaultBid == [bidId |-> <<>>, title |-> <<>>, fund |-> <<>>, amount |-> Dec(0, 0)]

InRange(b, i) == 0 <= i /\ i < Len(b)

At(b, i) == b[i + 1]

\* SwapAt with the second assignment lost, so that a record is duplicated: a
\* fault seeded to see that C3 detects it.
SwapAtLosing(b, i, j) == [b EXCEPT ![i + 1] = b[j + 1]]

\* std::swap(bids[i], bids[j]).
SwapAt(b, i, j) == [b EXCEPT ![i + 1] = b[j + 1], ![j + 1] = b[i + 1]]

\* Conversion of an int to size_t, and of a size_t to int.
ToSizeT(i) == i % SizeTMod

ToInt(u) == IF 2 * u >= SizeTMod THEN u - SizeTMod ELSE u

\* ------------------------------------------------------------------ state

VARIABLES
    file,     \* the input file csvPath names: whether it opens, and its data rows
    pc,       \* where the program is
    bids,     \* main's vector<Bid>
    vec,      \* loadBids' local vector
    loadI,    \* loadBids' row index i
    errlog,   \* whether the running or last load wrote "Error loading CSV" to cerr
    pos,      \* selectionSort's pos
    stack,    \* the quickSort calls in progress, the innermost last
    pivot,    \* partition's pivot
    low,      \* partition's low
    high,     \* partition's high
    oob,      \* whether the running or last sort accessed an element outside the vector
    orig,     \* history: the vector as the running or last sort was given it
    loaded,   \* history: the vector as the last load returned it
    resS,     \* history: what selectionSort made of the loaded vector
    cstr,     \* strToDouble's str
    cch,      \* strToDouble's ch
    cres,     \* strToDouble's result
    cpc       \* where the conversion is

vars == <<file, pc, bids, vec, loadI, errlog, pos, stack, pivot, low, high, oob,
          orig, loaded, resS, cstr, cch, cres, cpc>>

loadVars == <<vec, loadI, errlog>>
quickVars == <<stack, pivot, low, high>>
histVars == <<orig, loaded, resS>>
convVars == <<cstr, cch, cres, cpc>>

None == [set |-> FALSE, val |-> <<>>]

Some(v) == [set |-> TRUE, val |-> v]

ConvIdle == cstr = <<>> /\ cch = "$" /\ cres = Dec(0, 0) /\ cpc = "idle"

DriverIdle ==
    /\ pc = "menu" /\ bids = <<>> /\ vec = <<>> /\ loadI = 0 /\ errlog = FALSE
    /\ pos = 0 /\ stack = <<>> /\ pivot = <<>> /\ low = 0 /\ high = 0
    /\ oob = FALSE /\ orig = <<>> /\ loaded = None /\ resS = None

\* main, lines 170-181: an empty vector, the menu about to be shown.
Init == file \in Files /\ DriverIdle /\ ConvIdle

\* ------------------------------------------------------------------- load

\* The record loadBids builds from a data row (lines 75-79).
BidOfRow(row) ==
    [DefaultBid EXCEPT !.bidId  = Col(row, 1),
                       !.title  = Col(row, 0),
                       !.fund   = Col(row, 8),
                       !.amount = strToDouble(Col(row, 4), "$")]

\* Whether the row has every column lines 76-79 read.
RowReadable(row) == \A k \in {1, 0, 8, 4} : HasCol(row, k)

\* Menu choice 1 up to the parser's construction (line 70), which stands
\* outside the try block: on a file that does not open, csv::Error leaves
\* loadBids and main uncaught and the process is terminated.
LoadBidsBegin ==
    /\ pc = "menu"
    /\ IF ParserOpens(file)
       THEN pc' = "loadBids"
       ELSE pc' = "aborted"
    /\ vec' = <<>> /\ loadI' = 0 /\ errlog' = FALSE
    /\ UNCHANGED <<file, bids, pos, quickVars, oob, histVars, convVars>>

\* One turn of the loop of lines 74-82 on a row that has its columns.
LoadBidsRow ==
    /\ pc = "loadBids" /\ loadI < RowCount(file)
    /\ RowReadable(file.rows[loadI + 1])
    /\ vec' = Append(vec, BidOfRow(file.rows[loadI + 1]))
    /\ loadI' = loadI + 1
    /\ UNCHANGED <<file, pc, bids, errlog, pos, quickVars, oob, histVars, convVars>>

\* A row lacking a column: csv::Error is caught (lines 83-85), the error is
\* written to cerr, and the rows read so far are returned and assigned (line 197).
LoadBidsCatch ==
    /\ pc = "loadBids" /\ loadI < RowCount(file)
    /\ ~RowReadable(file.rows[loadI + 1])
    /\ errlog' = TRUE
    /\ bids' = vec /\ loaded' = Some(vec)
    /\ vec' = <<>> /\ loadI' = 0
    /\ pc' = "case1"
    /\ UNCHANGED <<file, pos, quickVars, oob, orig, resS, convVars>>

\* The loop ends (line 74), the vector is returned (line 86) and assigned (line 197).
LoadBidsReturn ==
    /\ pc = "loadBids" /\ loadI >= RowCount(file)
    /\ bids' = vec /\ loaded' = Some(vec)
    /\ vec' = <<>> /\ loadI' = 0
    /\ pc' = "case1"
    /\ UNCHANGED <<file, errlog, pos, quickVars, oob, orig, resS, convVars>>

\* Menu choice 2 (lines 204-209): every record is displayed, none changed.
DisplayAll ==
    /\ pc = "menu"
    /\ pc' = "case2"
    /\ UNCHANGED <<file, bids, loadVars, pos, quickVars, oob, histVars, convVars>>

\* The case's report is written and the loop shows the menu again (line 183).
BackToMenu ==
    /\ pc \in {"case1", "case2", "case3", "case4"}
    /\ pc' = "menu"
    /\ orig' = <<>>
    /\ UNCHANGED <<file, bids, loadVars, pos, quickVars, oob, loaded, resS, convVars>>

\* Menu choice 9 (lines 183, 231-232).
Exit ==
    /\ pc = "menu"
    /\ pc' = "exit"
    /\ UNCHANGED <<file, bids, loadVars, pos, quickVars, oob, histVars, convVars>>

\* --------------------------------------------------------- selection sort

\* MinIndexFrom with the comparison reversed, so that the greatest title is
\* found: a fault seeded to see that C2 and C4 detect it.
RECURSIVE MinIndexFromGreatest(_, _, _, _)
MinIndexFromGreatest(b, j, minIndex, size) ==
    IF ToSizeT(j) < ToSizeT(size)
    THEN MinIndexFromGreatest(b, j + 1,
             IF StrLess(At(b, minIndex).title, At(b, j).title) THEN j ELSE minIndex,
             size)
    ELSE minIndex

\* MinIndexFrom with <= for <, so that a later record of equal title replaces
\* the minimum: a fault seeded to see that C5 detects it.
RECURSIVE MinIndexFromLast(_, _, _, _)
MinIndexFromLast(b, j, minIndex, size) ==
    IF ToSizeT(j) < ToSizeT(size)
    THEN MinIndexFromLast(b, j + 1,
             IF ~StrLess(At(b, minIndex).title, At(b, j).title) THEN j ELSE minIndex,
             size)
    ELSE minIndex

\* The inner loop of lines 144-148, from j on: the index of the first record
\* of least title among minIndex and j .. size-1.
RECURSIVE MinIndexFrom(_, _, _, _)
MinIndexFrom(b, j, minIndex, size) ==
    IF ToSizeT(j) < ToSizeT(size)
    THEN MinIndexFrom(b, j + 1,
             IF StrLess(At(b, j).title, At(b, minIndex).title) THEN j ELSE minIndex,
             size)
    ELSE minIndex

\* Menu choice 3 up to the loop (lines 211-213, 138, 141).
SelectionSortBegin ==
    /\ pc = "menu"
    /\ pc' = "selectionSort"
    /\ pos' = 0
    /\ orig' = bids
    /\ oob' = FALSE
    /\ UNCHANGED <<file, bids, loadVars, quickVars, loaded, resS, convVars>>

\* One turn of the outer loop (lines 141-151).  The test compares pos with
\* size - 1 converted to size_t, which for an empty vector is the largest
\* size_t: the turn is then taken and line 150 swaps bids[pos], which the
\* vector does not have.  That is undefined: the process crashes, or the
\* access passes unnoticed and the loop goes on.
SelectionSortPass ==
    /\ pc = "selectionSort"
    /\ ToSizeT(pos) < ToSizeT(Len(bids) - 1)
    /\ LET minIndex == MinIndexFrom(bids, pos + 1, pos, Len(bids))
       IN  IF InRange(bids, pos) /\ InRange(bids, minIndex)
           THEN /\ bids' = SwapAt(bids, pos, minIndex)
                /\ pos' = ToSizeT(pos + 1)
                /\ UNCHANGED <<pc, oob>>
           ELSE /\ oob' = TRUE
                /\ \E crash \in BOOLEAN :
                      IF crash
                      THEN pc' = "crashed" /\ UNCHANGED <<bids, pos>>
                      ELSE pc' = pc /\ bids' = bids /\ pos' = ToSizeT(pos + 1)
    /\ UNCHANGED <<file, loadVars, quickVars, histVars, convVars>>

\* The outer loop's test fails and selectionSort returns (lines 141, 152).
SelectionSortReturn ==
    /\ pc = "selectionSort"
    /\ ~(ToSizeT(pos) < ToSizeT(Len(bids) - 1))
    /\ pc' = "case3"
    /\ pos' = 0
    /\ resS' = IF loaded = Some(orig) THEN Some(bids) ELSE resS
    /\ UNCHANGED <<file, bids, loadVars, quickVars, oob, orig, loaded, convVars>>

\* -------------------------------------------------------------- quicksort

\* A quickSort call in progress: its range, the split partition returned
\* (once it has), and which of its two recursive calls is running (0: none yet).
Frame(begin, end) == [begin |-> begin, end |-> end, mid |-> begin, call |-> 0]

Top == stack[Len(stack)]

Pop(st) == SubSeq(st, 1, Len(st) - 1)

\* PivotIndex taking the last element of the range: a fault seeded to see
\* that C10 detects it.
PivotIndexLast(begin, end) == end

\* Line 98: the middle of the range (int division; begin + end is not negative).
PivotIndex(begin, end) == (begin + end) \div 2

\* What an access outside the vector can do, the access being undefined:
\* crash the process, or yield some value, here one that compares either way.
OobOutcomes == {"crash", "yes", "no"}

\* Menu choice 4 up to the call (lines 220-222): bids.size() - 1 is computed
\* in size_t and converted to int, which for an empty vector gives -1.
QuickSortBegin ==
    /\ pc = "menu"
    /\ pc' = "quickSort"
    /\ stack' = <<Frame(0, ToInt(ToSizeT(Len(bids) - 1)))>>
    /\ orig' = bids
    /\ oob' = FALSE
    /\ UNCHANGED <<file, bids, loadVars, pos, pivot, low, high, loaded, resS, convVars>>

\* quickSort's test (line 125) and, when it holds, partition's first lines (98-100).
QuickSortEntry ==
    /\ pc = "quickSort"
    /\ IF Top.begin < Top.end
       THEN IF InRange(bids, PivotIndex(Top.begin, Top.end))
            THEN /\ pivot' = At(bids, PivotIndex(Top.begin, Top.end)).title
                 /\ low' = Top.begin
                 /\ high' = Top.end
                 /\ pc' = "scanLow"
                 /\ oob' = oob
            ELSE /\ oob' = TRUE
                 /\ pc' = "crashed"
                 /\ UNCHANGED <<pivot, low, high>>
       ELSE /\ pc' = "return"
            /\ UNCHANGED <<pivot, low, high, oob>>
    /\ UNCHANGED <<file, bids, loadVars, pos, stack, histVars, convVars>>

\* One test of the loop of line 104, and low++ when it holds.
PartitionScanLow ==
    /\ pc = "scanLow"
    /\ IF InRange(bids, low)
       THEN /\ IF StrLess(At(bids, low).title, pivot)
               THEN low' = low + 1 /\ pc' = pc
               ELSE low' = low /\ pc' = "scanHigh"
            /\ oob' = oob
       ELSE /\ oob' = TRUE
            /\ \E o \in OobOutcomes :
                  CASE o = "yes" /\ low < SizeTMod -> low' = low + 1 /\ pc' = pc
                    [] o = "no" -> low' = low /\ pc' = "scanHigh"
                    [] OTHER -> low' = low /\ pc' = "crashed"
    /\ UNCHANGED <<file, bids, loadVars, pos, stack, pivot, high, histVars, convVars>>

\* One test of the loop of line 106, and high-- when it holds.
PartitionScanHigh ==
    /\ pc = "scanHigh"
    /\ IF InRange(bids, high)
       THEN /\ IF StrLess(pivot, At(bids, high).title)
               THEN high' = high - 1 /\ pc' = pc
               ELSE high' = high /\ pc' = "check"
            /\ oob' = oob
       ELSE /\ oob' = TRUE
            /\ \E o \in OobOutcomes :
                  CASE o = "yes" /\ high > -SizeTMod -> high' = high - 1 /\ pc' = pc
                    [] o = "no" -> high' = high /\ pc' = "check"
                    [] OTHER -> high' = high /\ pc' = "crashed"
    /\ UNCHANGED <<file, bids, loadVars, pos, stack, pivot, low, histVars, convVars>>

\* Line 108 holds: partition returns high, quickSort keeps it as mid (line 126)
\* and calls quickSort(bids, begin, mid) (line 127).
PartitionReturn ==
    /\ pc = "check"
    /\ low >= high
    /\ stack' = Append([stack EXCEPT ![Len(stack)] = [Top EXCEPT !.mid = high, !.call = 1]],
                       Frame(Top.begin, high))
    /\ pivot' = <<>> /\ low' = 0 /\ high' = 0
    /\ pc' = "quickSort"
    /\ UNCHANGED <<file, bids, loadVars, pos, oob, histVars, convVars>>

\* PartitionSwap without lines 112-113, the indices left where they are: a
\* fault seeded to see that C9 detects it.
PartitionSwapStuck ==
    /\ pc = "check"
    /\ low < high
    /\ InRange(bids, low) /\ InRange(bids, high)
    /\ bids' = SwapAt(bids, low, high)
    /\ pc' = "scanLow"
    /\ UNCHANGED <<file, loadVars, pos, stack, pivot, low, high, oob, histVars, convVars>>

\* Line 108 fails: the two records are exchanged and both indices move (lines 111-113).
PartitionSwap ==
    /\ pc = "check"
    /\ low < high
    /\ IF InRange(bids, low) /\ InRange(bids, high)
       THEN /\ bids' = SwapAt(bids, low, high)
            /\ low' = low + 1
            /\ high' = high - 1
            /\ pc' = "scanLow"
            /\ oob' = oob
       ELSE /\ oob' = TRUE
            /\ pc' = "crashed"
            /\ UNCHANGED <<bids, low, high>>
    /\ UNCHANGED <<file, loadVars, pos, stack, pivot, histVars, convVars>>

\* A quickSort call returns (line 130).  The outermost returns to main; one
\* called at line 127 lets its caller go on to line 128, the call of
\* quickSort(bids, mid + 1, end); one called at line 128 leaves its caller at
\* its own end.
QuickSortReturn ==
    /\ pc = "return"
    /\ IF Len(stack) = 1
       THEN /\ stack' = <<>>
            /\ pc' = "case4"
       ELSE LET caller == stack[Len(stack) - 1]
                rest   == Pop(Pop(stack))
            IN  IF caller.call = 1
                THEN /\ stack' = rest \o <<[caller EXCEPT !.call = 2],
                                           Frame(caller.mid + 1, caller.end)>>
                     /\ pc' = "quickSort"
                ELSE /\ stack' = Append(rest, caller)
                     /\ pc' = "return"
    /\ UNCHANGED <<file, bids, loadVars, pos, pivot, low, high, oob, orig, loaded, resS, convVars>>

\* ---------------------------------------------------------- specification

QuickSortStep ==
    \/ QuickSortEntry
    \/ PartitionScanLow
    \/ PartitionScanHigh
    \/ PartitionReturn
    \/ PartitionSwap
    \/ QuickSortReturn

Next ==
    \/ LoadBidsBegin
    \/ LoadBidsRow
    \/ LoadBidsCatch
    \/ LoadBidsReturn
    \/ DisplayAll
    \/ BackToMenu
    \/ Exit
    \/ SelectionSortBegin
    \/ SelectionSortPass
    \/ SelectionSortReturn
    \/ QuickSortBegin
    \/ QuickSortStep

Spec == Init /\ [][Next]_vars

\* The program is one thread that runs a sort to its end once it has begun.
FairSpec == Spec /\ WF_vars(QuickSortStep)

\* ------------------------------------- the conversion, on bounded strings

ConvChars == {"$", ",", ".", "-", "0", "1", "5"}

StripChars == {"$", ","}

OneTwoHundred == <<"1", ",", "2", "0", "0">>

ConvInputs ==
    UNION {[1..n -> ConvChars] : n \in 0..MaxStrLen}
    \cup {AmountSamples[i] : i \in 1..Len(AmountSamples)}
    \cup {OneTwoHundred}

InitConv ==
    /\ file = [exists |-> FALSE, rows |-> <<>>]
    /\ DriverIdle
    /\ cstr \in ConvInputs /\ cch \in StripChars
    /\ cres = Dec(0, 0) /\ cpc = "call"

\* A call of strToDouble (lines 161-164).
StrToDoubleCall ==
    /\ cpc = "call"
    /\ cres' = strToDouble(cstr, cch)
    /\ cpc' = "done"
    /\ UNCHANGED <<file, pc, bids, loadVars, pos, quickVars, oob, histVars, cstr, cch>>

SpecConv == InitConv /\ [][StrToDoubleCall]_vars

\* ------------------------------------------------ vocabulary of the claims

\* s < t lexicographically: t goes on where s ends, or the first byte in
\* which they differ is smaller in s.
LexLess(s, t) ==
    \E k \in 0..(Len(t) - 1) :
        /\ k <= Len(s)
        /\ \A i \in 1..k : s[i] = t[i]
        /\ (k = Len(s) \/ Code(s[k + 1]) < Code(t[k + 1]))

Ascending(b) ==
    \A i, j \in 1..Len(b) : i < j => ~LexLess(b[j].title, b[i].title)

TitlesOf(b) == [i \in 1..Len(b) |-> b[i].title]

DistinctTitles(b) ==
    \A i, j \in 1..Len(b) : i # j => b[i].title # b[j].title

Count(b, r) == Cardinality({i \in 1..Len(b) : b[i] = r})

\* The same records, each as many times.
SameRecords(a, b) ==
    /\ Len(a) = Len(b)
    /\ \A i \in 1..Len(a) : Count(a, a[i]) = Count(b, a[i])

PartitionPcs == {"scanLow", "scanHigh", "check"}

QuickPcs == {"quickSort", "return"} \cup PartitionPcs

\* The first data row of the file that lacks a column (0 when none does).
FirstUnreadable(f) ==
    IF \E i \in 1..Len(f.rows) : ~RowReadable(f.rows[i])
    THEN CHOOSE i \in 1..Len(f.rows) :
            /\ ~RowReadable(f.rows[i])
            /\ \A h \in 1..(i - 1) : RowReadable(f.rows[h])
    ELSE 0

\* The records of the rows before the first that lacks a column, in file order.
RecordsBeforeFailure(f) ==
    [i \in 1..(FirstUnreadable(f) - 1) |-> BidOfRow(f.rows[i])]

\* ----------------------------------------------------------------- claims

\* C1: once quickSort(bids, 0, N-1) has returned on a vector of N >= 1
\* records, the titles are in non-decreasing lexicographic order.
C1_QuickSortAscending ==
    (pc = "case4" /\ Len(orig) >= 1) => Ascending(bids)

C1_Witness ==
    pc = "case4" /\ Len(orig) >= 3 /\ ~Ascending(orig) /\ Ascending(bids)

\* C2: once selectionSort(bids) has returned on a vector of N >= 1 records,
\* the titles are in non-decreasing lexicographic order.
C2_SelectionSortAscending ==
    (pc = "case3" /\ Len(orig) >= 1) => Ascending(bids)

C2_Witness ==
    pc = "case3" /\ Len(orig) >= 3 /\ ~Ascending(orig) /\ Ascending(bids)

\* C3: in every state of either sort of a vector of N >= 1 records, and once
\* it has returned, the vector has its N records: the same whole records,
\* each as many times as in the vector the sort was given.
C3_SortsOnlyRearrange ==
    (pc \in QuickPcs \cup {"selectionSort", "case3", "case4"} /\ Len(orig) >= 1)
        => SameRecords(bids, orig)

C3_Witness ==
    /\ pc \in {"selectionSort", "scanLow"}
    /\ Len(orig) >= 3
    /\ bids # orig
    /\ ~Ascending(bids)

\* Both sorts have been run on the vector as loaded: selectionSort earlier
\* (its result kept in resS), quickSort just now.
BothSorted == pc = "case4" /\ resS.set /\ loaded = Some(orig)

\* C4, as claimed: selectionSort and quickSort of the same non-empty vector
\* end with the same records position by position, duplicate titles included.
C4_IdenticalOrderings ==
    (BothSorted /\ Len(orig) >= 1) => resS.val = bids

\* C4, amended: selectionSort and quickSort of the same non-empty vector end
\* with the same titles position by position, and with the same records
\* position by position when no two records of the vector share a title.
C4_SameTitlesSameRecordsIfDistinct ==
    (BothSorted /\ Len(orig) >= 1)
        => /\ TitlesOf(resS.val) = TitlesOf(bids)
           /\ (DistinctTitles(orig) => resS.val = bids)

C4_Witness ==
    /\ BothSorted
    /\ Len(orig) >= 3
    /\ DistinctTitles(orig)
    /\ ~Ascending(orig)
    /\ resS.val = bids

\* C5, as claimed: either sort leaves a vector whose titles are already in
\* non-decreasing order unchanged position by position, duplicates allowed.
C5_SortedInputUnchanged ==
    (pc \in {"case3", "case4"} /\ Ascending(orig)) => bids = orig

\* C5, amended: selectionSort leaves a non-empty vector whose titles are
\* already in non-decreasing order unchanged position by position, duplicates
\* allowed; quickSort leaves its titles unchanged position by position, and
\* its records unchanged position by position when no two of them share a title.
C5_SortedInputKeepsTitles ==
    /\ (pc = "case3" /\ Len(orig) >= 1 /\ Ascending(orig)) => bids = orig
    /\ (pc = "case4" /\ Len(orig) >= 1 /\ Ascending(orig))
          => /\ TitlesOf(bids) = TitlesOf(orig)
             /\ (DistinctTitles(orig) => bids = orig)

C5_Witness ==
    /\ pc = "case4"
    /\ Len(orig) >= 3
    /\ Ascending(orig)
    /\ resS = Some(orig)
    /\ loaded.val # orig

\* C6: on an empty vector both sorts are no-ops that end without error: no
\* element outside the vector is accessed, the process does not crash and
\* the vector is still empty.
C6_EmptyVectorNoOp ==
    (pc \in QuickPcs \cup {"selectionSort", "case3", "case4", "crashed"} /\ orig = <<>>)
        => (~oob /\ pc # "crashed" /\ bids = <<>>)

\* C7: when the file cannot be opened or a row lacks a consumed column, the
\* process is not aborted, and once loadBids has returned the failure has
\* been reported and the vector holds the records of the rows before the
\* failure, in file order.
C7_LoadFailureReported ==
    (~ParserOpens(file) \/ FirstUnreadable(file) # 0)
        => /\ pc # "aborted"
           /\ pc = "case1" => (errlog /\ bids = RecordsBeforeFailure(file))

\* C8: strToDouble strips ch and parses the whole remainder:
\* strToDouble("$1,200.50", '$') is 1200.50 and strToDouble("1,200", ',') is 1200.
C8_WholeRemainderParsed ==
    cpc = "done"
        => /\ (cstr = AmountSamples[2] /\ cch = "$") => cres = Dec(120050, 2)
           /\ (cstr = OneTwoHundred /\ cch = ",") => cres = Dec(1200, 0)

\* Each quickSort call in progress works on a range inside its caller's and
\* shorter than it.
RangesShrink ==
    \A k \in 2..Len(stack) :
        /\ stack[k - 1].begin <= stack[k].begin
        /\ stack[k].end <= stack[k - 1].end
        /\ stack[k].end - stack[k].begin < stack[k - 1].end - stack[k - 1].begin

\* C9: quickSort terminates: every recursive call is on a range strictly
\* smaller than its caller's, and a quickSort that has begun returns to main.
C9_QuickSortTerminates ==
    /\ []RangesShrink
    /\ (pc \in QuickPcs) ~> (pc = "case4")

C9_Witness ==
    /\ pc = "case4"
    /\ Len(orig) >= 3
    /\ \A i \in 1..Len(orig) : orig[i].title = orig[1].title
    /\ bids # orig

\* C10: in every partition(bids, begin, end) reached from quickSort(bids, 0, N-1),
\* 0 <= begin < end <= N-1, low and high are inside [begin, end] whenever an
\* element is read or swapped at them, no element outside the vector is
\* accessed, and the split returned is at least begin and at most end-1.
C10_PartitionInRange ==
    /\ pc \in PartitionPcs =>
          /\ 0 <= Top.begin /\ Top.begin < Top.end /\ Top.end <= Len(bids) - 1
          /\ low \in Top.begin..Top.end
          /\ pc \in {"scanHigh", "check"} => high \in Top.begin..Top.end
          /\ (pc = "check" /\ low >= high) => high \in Top.begin..(Top.end - 1)
    /\ pc \in QuickPcs =>
          /\ ~oob
          /\ \A k \in 1..Len(stack) :
                stack[k].call # 0 =>
                    stack[k].mid \in stack[k].begin..(stack[k].end - 1)

C10_Witness ==
    /\ pc = "check"
    /\ low < high
    /\ Top.begin > 0
    /\ Top.end = Len(bids) - 1

====
